---- MODULE Spec2Model ----
(***************************************************************************)
(* Model of src/src/shared/integrate-fedify.ts: the single-actor           *)
(* ActivityPub core of the photo blog.  The persistent key-value store     *)
(* (PostgresKvStore) holds the actor's key pair under ['key'] and one row  *)
(* per follower under ['followers', actorUri].  Every request (inbox       *)
(* activity, collection/actor dispatch, content event) is an async         *)
(* function; each await is a point where other requests may run, so every  *)
(* request is a process whose pc is the await it is suspended at.          *)
(***************************************************************************)
EXTENDS Integers, Sequences, FiniteSets, TLC

\* ---- bounds -------------------------------------------------------------
\* Number of requests (handler invocations) in one run.
NProcs == 2

\* Requests in a run of the inbox listeners together with the content events.
NFanoutProcs == 3

MaxProcs == IF NProcs > NFanoutProcs THEN NProcs ELSE NFanoutProcs
Procs == 1..MaxProcs
\* Remote actors that may send activities.
Actors == {"A", "B"}
\* Content identifiers of the photo repository.
PhotoIds == {"p1"}

\* ---- values -------------------------------------------------------------
NULL == "null"
activityPubHandle == "me"
Handles == {activityPubHandle, "other"}

\* No key pair stored / returned.
NoKey == 0

\* URIs as the templates of the routes build them.
ActorUri(h) == <<"users", h>>
NoteUri(id) == <<"notes", id>>
NullUri == <<NULL, NULL>>
ObjectUris == {NullUri} \cup {ActorUri(h) : h \in Handles} \cup {NoteUri(id) : id \in PhotoIds}

\* ctx.parseUri: an actor URI parses to type 'actor' with its identifier,
\* an object URI to type 'object', anything else to null.
parseUri(uri) ==
  IF uri[1] = "users" THEN [type |-> "actor", identifier |-> uri[2]]
  ELSE IF uri[1] = "notes" THEN [type |-> "object", identifier |-> uri[2]]
  ELSE [type |-> NULL, identifier |-> NULL]

\* The inbox of a remote actor and the shared inbox of its server.
InboxOf(a) == <<"inbox", a>>
SharedInbox == <<"inbox", "shared">>
NoInbox == <<NULL, NULL>>

\* What resolving a remote actor can return: the actor with its inbox and,
\* optionally, a shared inbox.
Profiles(a) ==
  {[id |-> a, inboxId |-> InboxOf(a), sharedInbox |-> s] : s \in {NoInbox, SharedInbox}}
NoFollower == [id |-> NULL, inboxId |-> NoInbox, sharedInbox |-> NoInbox]

\* exportJwk / importJwk: the stored form of a key pair is its JWK export.
exportJwk(k) == <<"jwk", k>>
importJwk(e) == e[2]
NoEntry == <<NULL, NoKey>>

NoArg == [id |-> NULL, actorId |-> NULL, objectId |-> NullUri,
          inner |-> "none", innerActorId |-> NULL, handle |-> NULL, photoId |-> NULL]
NoResult == [status |-> "none", items |-> {}, count |-> 0]

VARIABLES
  kvKey,       \* kv row ['key']: NoEntry or the JWK export of a key pair
  genCount,    \* number of key pairs generated so far (each one is fresh)
  keyWrites,   \* history: number of kv.set(['key'], ...) calls performed
  followers,   \* kv rows ['followers', a]: NoFollower when the row is absent
  photos,      \* the photo repository: id -> "absent" | "hidden" | "public"
  pc,          \* per request: the await it is suspended at
  op,          \* per request: which handler it runs
  arg,         \* per request: its input
  entry,       \* per request: local `entry` of the key-pairs dispatcher
  keys,        \* per request: the key pair the key-pairs dispatcher returned
  follower,    \* per request: local `follower` of the Follow listener
  recipients,  \* per request: the recipients sendActivity resolved
  result,      \* per request: the value a dispatcher returned
  pred,        \* history: the requests that had completed when this one began
  deliveries   \* history: one batch per sendActivity, in order of sending

vars == <<kvKey, genCount, keyWrites, followers, photos, pc, op, arg, entry, keys,
          follower, recipients, result, pred, deliveries>>

localVars == <<entry, keys, follower, recipients, result>>
storeVars == <<kvKey, genCount, keyWrites, followers, photos>>

\* A call that returns once its activity is handed to sendActivity, as one
\* that does not await the send.
FinishedOnceSending(p) == pc[p] \in {"done", "failed", "deliver"}

\* The request has returned or was rejected.
Finished(p) == pc[p] \in {"done", "failed"}

\* Requests are taken up in index order: request p begins once p-1 has begun.
CanBegin(p) == pc[p] = "idle" /\ \A q \in Procs : q < p => pc[q] # "idle"

Begin(p, o, a, next) ==
  /\ CanBegin(p)
  /\ op' = [op EXCEPT ![p] = o]
  /\ arg' = [arg EXCEPT ![p] = a]
  /\ pc' = [pc EXCEPT ![p] = next]
  /\ pred' = [pred EXCEPT ![p] = {q \in Procs : Finished(q)}]

\* A kv.set that inserts a row and leaves an existing one as it is.
kvSetIfAbsent(dir, u, rec) == IF dir[u] = NoFollower THEN [dir EXCEPT ![u] = rec] ELSE dir

\* ---- the follower rows of the key-value store ------------------------------
\* A kv.set that is lost.
kvSetLost(dir, u, rec) == dir

\* kv.set(['followers', u], rec): insert the row or overwrite the one there.
kvSet(dir, u, rec) == [dir EXCEPT ![u] = rec]

\* A kv.delete that removes nothing.
kvDeleteNothing(dir, u) == dir

\* kv.delete(['followers', u]): remove the row; nothing happens when absent.
kvDelete(dir, u) == [dir EXCEPT ![u] = NoFollower]

\* The number of follower rows the followers dispatcher would list.
FollowerCount(dir) == Cardinality({a \in Actors : dir[a] # NoFollower})

\* ---- key-pairs dispatcher ------------------------------------------------
\* Where a request continues once the key-pairs dispatcher has returned.
AfterKeys(p) ==
  IF op[p] \in {"actor", "keyPairs"} THEN "done"
  ELSE IF op[p] = "Follow" THEN "deliver" ELSE "list"

DispatcherResult(p) ==
  IF op[p] = "actor" THEN [NoResult EXCEPT !.status = "Person"]
  ELSE IF op[p] = "keyPairs" THEN [NoResult EXCEPT !.status = "keys"]
  ELSE result[p]

\* A dispatcher that generates a key pair whatever is stored.
KeyGetIgnoresStored(p) ==
  /\ pc[p] = "keyGet"
  /\ entry' = [entry EXCEPT ![p] = NoEntry]
  /\ pc' = [pc EXCEPT ![p] = "keySet"]
  /\ UNCHANGED <<storeVars, op, arg, keys, follower, recipients, result, pred, deliveries>>

\* const entry = await kv.get(['key']); a stored entry is imported and returned.
KeyGet(p) ==
  /\ pc[p] = "keyGet"
  /\ entry' = [entry EXCEPT ![p] = kvKey]
  /\ IF kvKey = NoEntry
       THEN /\ pc' = [pc EXCEPT ![p] = "keySet"]
            /\ UNCHANGED <<keys, result>>
       ELSE /\ keys' = [keys EXCEPT ![p] = importJwk(kvKey)]
            /\ pc' = [pc EXCEPT ![p] = AfterKeys(p)]
            /\ result' = [result EXCEPT ![p] = DispatcherResult(p)]
  /\ UNCHANGED <<storeVars, op, arg, follower, recipients, pred, deliveries>>

\* entry == null: generate a key pair, kv.set(['key'], exported) and return it.
KeySet(p) ==
  /\ pc[p] = "keySet"
  /\ genCount' = genCount + 1
  /\ kvKey' = exportJwk(genCount + 1)
  /\ keyWrites' = keyWrites + 1
  /\ keys' = [keys EXCEPT ![p] = genCount + 1]
  /\ pc' = [pc EXCEPT ![p] = AfterKeys(p)]
  /\ result' = [result EXCEPT ![p] = DispatcherResult(p)]
  /\ UNCHANGED <<followers, photos, op, arg, entry, follower, recipients, pred, deliveries>>

\* ---- actor, key-pairs and collection dispatchers --------------------------
\* An actor dispatcher that answers for every identifier.
ActorDispatcherAnyHandle(p) ==
  \E h \in Handles :
    /\ Begin(p, "actor", [NoArg EXCEPT !.handle = h], "keyGet")
    /\ UNCHANGED <<storeVars, localVars, deliveries>>

\* setActorDispatcher: null unless the identifier is the configured handle;
\* otherwise a Person whose public keys come from the key-pairs dispatcher.
ActorDispatcher(p) ==
  \E h \in Handles :
    /\ Begin(p, "actor", [NoArg EXCEPT !.handle = h],
             IF h # activityPubHandle THEN "done" ELSE "keyGet")
    /\ result' = [result EXCEPT ![p] =
         IF h # activityPubHandle THEN [NoResult EXCEPT !.status = "null"] ELSE @]
    /\ UNCHANGED <<storeVars, entry, keys, follower, recipients, deliveries>>

\* setKeyPairsDispatcher: [] unless the identifier is the configured handle.
KeyPairsDispatcher(p) ==
  \E h \in Handles :
    /\ Begin(p, "keyPairs", [NoArg EXCEPT !.handle = h],
             IF h # activityPubHandle THEN "done" ELSE "keyGet")
    /\ result' = [result EXCEPT ![p] =
         IF h # activityPubHandle THEN [NoResult EXCEPT !.status = "empty"] ELSE @]
    /\ UNCHANGED <<storeVars, entry, keys, follower, recipients, deliveries>>

\* getPhotos(): the photos the repository lists publicly.
getPhotos == {id \in PhotoIds : photos[id] = "public"}

\* getPhotosMeta().count: the number of photos the repository lists publicly.
getPhotosMetaCount == Cardinality({id \in PhotoIds : photos[id] = "public"})

\* createNote: the note of a photo, with its content.
createNote(id) == <<"Note", id>>

\* createActivity: the Create that wraps the note of a photo.
createActivity(id) == [kind |-> "Create", object |-> createNote(id)]

\* setOutboxDispatcher: null for another identifier, else one Create per photo.
OutboxDispatcher(p) ==
  \E h \in Handles :
    /\ Begin(p, "outbox", [NoArg EXCEPT !.handle = h], "done")
    /\ result' = [result EXCEPT ![p] =
         IF h # activityPubHandle THEN [NoResult EXCEPT !.status = "null"]
         ELSE [NoResult EXCEPT !.status = "items",
                             !.items = {createActivity(id) : id \in getPhotos}]]
    /\ UNCHANGED <<storeVars, entry, keys, follower, recipients, deliveries>>

\* A counter that counts every record of the repository, hidden ones too.
OutboxCounterCountsAll(p) ==
  \E h \in Handles :
    /\ Begin(p, "outboxCounter", [NoArg EXCEPT !.handle = h], "done")
    /\ result' = [result EXCEPT ![p] =
         IF h # activityPubHandle THEN [NoResult EXCEPT !.status = "null"]
         ELSE [NoResult EXCEPT !.status = "count",
                               !.count = Cardinality({id \in PhotoIds : photos[id] # "absent"})]]
    /\ UNCHANGED <<storeVars, entry, keys, follower, recipients, deliveries>>

\* setCounter of the outbox: null for another identifier, else the count of
\* getPhotosMeta().
OutboxCounter(p) ==
  \E h \in Handles :
    /\ Begin(p, "outboxCounter", [NoArg EXCEPT !.handle = h], "done")
    /\ result' = [result EXCEPT ![p] =
         IF h # activityPubHandle THEN [NoResult EXCEPT !.status = "null"]
         ELSE [NoResult EXCEPT !.status = "count", !.count = getPhotosMetaCount]]
    /\ UNCHANGED <<storeVars, entry, keys, follower, recipients, deliveries>>

\* The follower rows as the followers dispatcher turns them into recipients.
FollowerRows == {followers[a] : a \in {b \in Actors : followers[b] # NoFollower}}

\* setFollowersDispatcher: null for another identifier, else every stored row.
FollowersDispatcher(p) ==
  \E h \in Handles :
    /\ Begin(p, "followers", [NoArg EXCEPT !.handle = h], "done")
    /\ result' = [result EXCEPT ![p] =
         IF h # activityPubHandle THEN [NoResult EXCEPT !.status = "null"]
         ELSE [NoResult EXCEPT !.status = "items", !.items = FollowerRows]]
    /\ UNCHANGED <<storeVars, entry, keys, follower, recipients, deliveries>>

\* ---- ctx.sendActivity ----------------------------------------------------
\* None of the calls passes options, so the shared inbox is not preferred.
preferSharedInbox == FALSE

\* The inbox a recipient is delivered to.
InboxFor(r, prefer) ==
  IF prefer /\ r.sharedInbox # NoInbox THEN r.sharedInbox ELSE r.inboxId

\* extractInboxes: one entry per distinct inbox URI, with the actors behind it;
\* recipients without an inbox or an id are skipped.
extractInboxes(recips, prefer) ==
  LET deliverable == {r \in recips : InboxFor(r, prefer) # NoInbox /\ r.id # NULL}
  IN {[inbox |-> i, actorIds |-> {r.id : r \in {x \in deliverable : InboxFor(x, prefer) = i}}] :
        i \in {InboxFor(r, prefer) : r \in deliverable}}

\* The activity a request sends.
ActivityOf(p) ==
  CASE op[p] = "Follow" -> [kind |-> "Accept", object |-> <<"Follow", arg[p].id>>]
    [] op[p] = "photoCreated" -> createActivity(arg[p].photoId)
    [] op[p] = "photoUpdated" -> [kind |-> "Update", object |-> createNote(arg[p].photoId)]
    [] op[p] = "photoDeleted" -> [kind |-> "Delete", object |-> NoteUri(arg[p].photoId)]
    [] OTHER -> [kind |-> "none", object |-> NullUri]

\* recipients === 'followers': the followers dispatcher lists the stored rows.
List(p) ==
  /\ pc[p] = "list"
  /\ recipients' = [recipients EXCEPT ![p] = FollowerRows]
  /\ pc' = [pc EXCEPT ![p] = "deliver"]
  /\ UNCHANGED <<storeVars, op, arg, entry, keys, follower, result, pred, deliveries>>

\* A sendActivity that gives up at the first delivery that fails.
DeliverUntilFailure(p) ==
  /\ pc[p] = "deliver"
  /\ LET targets == extractInboxes(recipients[p], preferSharedInbox) IN
     \E ok \in [targets -> BOOLEAN] :
       /\ deliveries' = Append(deliveries,
            [proc |-> p, activity |-> ActivityOf(p), key |-> keys[p],
             sent |-> {[inbox |-> t.inbox, actorIds |-> t.actorIds, ok |-> ok[t]] :
                         t \in {u \in targets : (\E v \in targets : ~ok[v]) => ~ok[u]}}])
       /\ pc' = [pc EXCEPT ![p] =
            IF \E t \in targets : ~ok[t] THEN "failed"
            ELSE IF op[p] = "Follow" THEN "store" ELSE "done"]
  /\ UNCHANGED <<storeVars, op, arg, localVars, pred>>

\* Without a queue every inbox is sent to at once (Promise.all); the call is
\* rejected when any delivery fails, after all of them have been attempted.
Deliver(p) ==
  /\ pc[p] = "deliver"
  /\ LET targets == extractInboxes(recipients[p], preferSharedInbox) IN
     \E ok \in [targets -> BOOLEAN] :
       /\ deliveries' = Append(deliveries,
            [proc |-> p, activity |-> ActivityOf(p), key |-> keys[p],
             sent |-> {[inbox |-> t.inbox, actorIds |-> t.actorIds, ok |-> ok[t]] : t \in targets}])
       /\ pc' = [pc EXCEPT ![p] =
            IF \E t \in targets : ~ok[t] THEN "failed"
            ELSE IF op[p] = "Follow" THEN "store" ELSE "done"]
  /\ UNCHANGED <<storeVars, op, arg, localVars, pred>>

\* ---- inbox listeners -------------------------------------------------------
\* The Follow activities received: a well-formed Follow of 'me' by each actor,
\* and actor A's with one field missing or with another object.
ValidFollow(a) ==
  [NoArg EXCEPT !.id = "f1", !.actorId = a, !.objectId = ActorUri(activityPubHandle)]

FollowInputs ==
  {ValidFollow(a) : a \in Actors}
  \cup {[ValidFollow("A") EXCEPT !.id = NULL]}
  \cup {[ValidFollow("A") EXCEPT !.actorId = NULL]}
  \cup {[ValidFollow("A") EXCEPT !.objectId = o] : o \in ObjectUris}

\* A Follow check that accepts a Follow of any actor of this server.
FollowAddressedAnyActor(f) ==
  /\ ~(f.id = NULL \/ f.actorId = NULL \/ f.objectId = NullUri)
  /\ parseUri(f.objectId).type = "actor"

\* The checks of the Follow listener before its first await.
FollowAddressed(f) ==
  /\ ~(f.id = NULL \/ f.actorId = NULL \/ f.objectId = NullUri)
  /\ ~(parseUri(f.objectId).type # "actor" \/ parseUri(f.objectId).identifier # activityPubHandle)

\* .on(Follow): validate, then await follow.getActor(ctx).
FollowListener(p) ==
  \E f \in FollowInputs :
    /\ Begin(p, "Follow", f, IF FollowAddressed(f) THEN "getActor" ELSE "done")
    /\ UNCHANGED <<storeVars, localVars, deliveries>>

\* A listener that goes on to send the Accept whatever getActor returned.
GetActorUnchecked(p) ==
  /\ pc[p] = "getActor"
  /\ \E r \in Profiles(arg[p].actorId) \cup {NoFollower} :
       /\ follower' = [follower EXCEPT ![p] = r]
       /\ pc' = [pc EXCEPT ![p] = "keyGet"]
       /\ recipients' = [recipients EXCEPT ![p] = {r}]
  /\ UNCHANGED <<storeVars, op, arg, entry, keys, result, pred, deliveries>>

\* follow.getActor(ctx) returns the remote actor or null; a resolved follower
\* is sent the Accept (sendActivity starts by asking for the key pairs).
GetActor(p) ==
  /\ pc[p] = "getActor"
  /\ \E r \in Profiles(arg[p].actorId) \cup {NoFollower} :
       /\ follower' = [follower EXCEPT ![p] = r]
       /\ IF r = NoFollower
            THEN /\ pc' = [pc EXCEPT ![p] = "done"]
                 /\ UNCHANGED recipients
            ELSE /\ pc' = [pc EXCEPT ![p] = "keyGet"]
                 /\ recipients' = [recipients EXCEPT ![p] = {r}]
  /\ UNCHANGED <<storeVars, op, arg, entry, keys, result, pred, deliveries>>

\* await kv.set(['followers', follow.actorId.href], {id, inboxId, endpoints}).
Store(p) ==
  /\ pc[p] = "store"
  /\ followers' = kvSet(followers, arg[p].actorId,
       [id |-> follower[p].id, inboxId |-> follower[p].inboxId,
        sharedInbox |-> follower[p].sharedInbox])
  /\ pc' = [pc EXCEPT ![p] = "done"]
  /\ UNCHANGED <<kvKey, genCount, keyWrites, photos, op, arg, localVars, pred, deliveries>>

\* The Undo activities received: an Undo by actor a of a well-formed Follow of
\* 'me' made by actor b, and actor A's Undo of its own Follow wrapping something
\* that is no Follow, with one field missing or with another object.
ValidUndo(a, b) ==
  [NoArg EXCEPT !.actorId = a, !.inner = "Follow", !.id = "f1",
                !.objectId = ActorUri(activityPubHandle), !.innerActorId = b]

UndoInputs ==
  {ValidUndo(a, b) : a \in Actors, b \in Actors}
  \cup {[NoArg EXCEPT !.actorId = "A", !.inner = "Other"]}
  \cup {[ValidUndo("A", "A") EXCEPT !.id = NULL]}
  \cup {[ValidUndo("A", "A") EXCEPT !.actorId = NULL]}
  \cup {[ValidUndo("A", "A") EXCEPT !.objectId = o] : o \in ObjectUris}

\* Undo checks that accept the Undo of a Follow of any object.
UndoAddressedAnyObject(u) ==
  /\ ~(u.inner # "Follow" \/ u.id = NULL)
  /\ ~(u.actorId = NULL \/ u.objectId = NullUri)

\* The checks of the Undo listener on the object it wraps.
UndoAddressed(u) ==
  /\ ~(u.inner # "Follow" \/ u.id = NULL)
  /\ ~(u.actorId = NULL \/ u.objectId = NullUri)
  /\ ~(parseUri(u.objectId).type # "actor" \/ parseUri(u.objectId).identifier # activityPubHandle)

\* .on(Undo): await undo.getObject().
UndoListener(p) ==
  \E u \in UndoInputs :
    /\ Begin(p, "Undo", u, "getObject")
    /\ UNCHANGED <<storeVars, localVars, deliveries>>

GetObject(p) ==
  /\ pc[p] = "getObject"
  /\ pc' = [pc EXCEPT ![p] = IF UndoAddressed(arg[p]) THEN "delete" ELSE "done"]
  /\ UNCHANGED <<storeVars, op, arg, localVars, pred, deliveries>>

\* An Undo that removes the row of the wrapped Follow's actor.
DeleteInnerActor(p) ==
  /\ pc[p] = "delete"
  /\ followers' = kvDelete(followers, arg[p].innerActorId)
  /\ pc' = [pc EXCEPT ![p] = "done"]
  /\ UNCHANGED <<kvKey, genCount, keyWrites, photos, op, arg, localVars, pred, deliveries>>

\* await kv.delete(['followers', undo.actorId.href]).
Delete(p) ==
  /\ pc[p] = "delete"
  /\ followers' = kvDelete(followers, arg[p].actorId)
  /\ pc' = [pc EXCEPT ![p] = "done"]
  /\ UNCHANGED <<kvKey, genCount, keyWrites, photos, op, arg, localVars, pred, deliveries>>

\* An activity of a kind no listener is registered for.
OtherActivity(p) ==
  /\ Begin(p, "Other", NoArg, "done")
  /\ UNCHANGED <<storeVars, localVars, deliveries>>

\* ---- content events --------------------------------------------------------
\* getPhoto(photoId): the record of the repository, null when there is none.
getPhoto(id) == photos[id]

photoCreated(p) ==
  \E id \in PhotoIds :
    /\ Begin(p, "photoCreated", [NoArg EXCEPT !.photoId = id], "getPhoto")
    /\ UNCHANGED <<storeVars, localVars, deliveries>>

photoUpdated(p) ==
  \E id \in PhotoIds :
    /\ Begin(p, "photoUpdated", [NoArg EXCEPT !.photoId = id], "getPhoto")
    /\ UNCHANGED <<storeVars, localVars, deliveries>>

\* A lookup that skips a missing photo only.
GetPhotoNullOnly(p) ==
  /\ pc[p] = "getPhoto"
  /\ pc' = [pc EXCEPT ![p] =
       IF getPhoto(arg[p].photoId) = "absent" THEN "done" ELSE "keyGet"]
  /\ UNCHANGED <<storeVars, op, arg, localVars, pred, deliveries>>

\* if (photo == null || photo.hidden) return; else sendActivity to 'followers'.
GetPhoto(p) ==
  /\ pc[p] = "getPhoto"
  /\ pc' = [pc EXCEPT ![p] =
       IF getPhoto(arg[p].photoId) = "absent" \/ getPhoto(arg[p].photoId) = "hidden"
       THEN "done" ELSE "keyGet"]
  /\ UNCHANGED <<storeVars, op, arg, localVars, pred, deliveries>>

\* A photoDeleted that looks the photo up as photoCreated does.
photoDeletedLooksUp(p) ==
  \E id \in PhotoIds :
    /\ Begin(p, "photoDeleted", [NoArg EXCEPT !.photoId = id], "getPhoto")
    /\ UNCHANGED <<storeVars, localVars, deliveries>>

\* photoDeleted looks nothing up: it sends the Delete straight away.
photoDeleted(p) ==
  \E id \in PhotoIds :
    /\ Begin(p, "photoDeleted", [NoArg EXCEPT !.photoId = id], "keyGet")
    /\ UNCHANGED <<storeVars, localVars, deliveries>>

\* ---- initial states -------------------------------------------------------
InitProcs ==
  /\ pc = [p \in Procs |-> IF p <= NProcs THEN "idle" ELSE "unused"]
  /\ op = [p \in Procs |-> "none"]
  /\ arg = [p \in Procs |-> NoArg]
  /\ entry = [p \in Procs |-> NoEntry]
  /\ keys = [p \in Procs |-> NoKey]
  /\ follower = [p \in Procs |-> NoFollower]
  /\ recipients = [p \in Procs |-> {}]
  /\ result = [p \in Procs |-> NoResult]
  /\ pred = [p \in Procs |-> {}]
  /\ deliveries = <<>>

\* A fresh deployment: nothing stored yet.
InitEmptyStore ==
  /\ kvKey = NoEntry
  /\ genCount = 0
  /\ keyWrites = 0
  /\ followers = [a \in Actors |-> NoFollower]

\* ---- specification of the dispatchers -------------------------------------
InitKey ==
  /\ InitProcs
  /\ InitEmptyStore
  /\ photos \in [PhotoIds -> {"absent", "hidden", "public"}]

NextKey ==
  \E p \in Procs :
    \/ ActorDispatcher(p)
    \/ KeyPairsDispatcher(p)
    \/ OutboxDispatcher(p)
    \/ OutboxCounter(p)
    \/ FollowersDispatcher(p)
    \/ KeyGet(p)
    \/ KeySet(p)

SpecKey == InitKey /\ [][NextKey]_vars

\* ---- specification of the inbox listeners ----------------------------------
InitInbox ==
  /\ InitProcs
  /\ InitEmptyStore
  /\ photos = [id \in PhotoIds |-> "public"]

NextInbox ==
  \E p \in Procs :
    \/ FollowListener(p)
    \/ GetActor(p)
    \/ KeyGet(p)
    \/ KeySet(p)
    \/ Deliver(p)
    \/ Store(p)
    \/ UndoListener(p)
    \/ GetObject(p)
    \/ Delete(p)
    \/ OtherActivity(p)

SpecInbox == InitInbox /\ [][NextInbox]_vars

\* ---- specification of the content events -----------------------------------
\* The store is persistent: the requests of a run may find followers recorded
\* by earlier requests.  The actors being interchangeable, the directories to
\* begin with are those in which B is recorded only if A is, and has a shared
\* inbox only if A has.
DirectoriesToBeginWith ==
  {f \in [Actors -> {NoFollower} \cup UNION {Profiles(a) : a \in Actors}] :
     /\ \A a \in Actors : f[a] = NoFollower \/ f[a] \in Profiles(a)
     /\ f["B"] # NoFollower => f["A"] # NoFollower
     /\ f["B"].sharedInbox # NoInbox => f["A"].sharedInbox # NoInbox}

InitOutbox ==
  /\ InitProcs
  /\ kvKey = NoEntry
  /\ genCount = 0
  /\ keyWrites = 0
  /\ followers \in DirectoriesToBeginWith
  /\ photos \in [PhotoIds -> {"absent", "hidden", "public"}]

NextOutbox ==
  \E p \in Procs :
    \/ photoCreated(p)
    \/ photoUpdated(p)
    \/ photoDeleted(p)
    \/ GetPhoto(p)
    \/ KeyGet(p)
    \/ KeySet(p)
    \/ List(p)
    \/ Deliver(p)

SpecOutbox == InitOutbox /\ [][NextOutbox]_vars

\* The steps of request p after it has begun.
Continue(p) ==
  \/ GetPhoto(p)
  \/ KeyGet(p)
  \/ KeySet(p)
  \/ List(p)
  \/ Deliver(p)

\* Every await of a call resolves or rejects, and the event loop then runs the
\* continuation: a request that can take a step eventually takes one.
FairSpecOutbox == SpecOutbox /\ \A p \in Procs : WF_vars(Continue(p))

\* ---- inbox listeners together with content events -------------------------
\* A deployment that has served a request before: the key pair is stored,
\* nobody follows yet.
InitFanout ==
  /\ pc = [p \in Procs |-> IF p <= NFanoutProcs THEN "idle" ELSE "unused"]
  /\ op = [p \in Procs |-> "none"]
  /\ arg = [p \in Procs |-> NoArg]
  /\ entry = [p \in Procs |-> NoEntry]
  /\ keys = [p \in Procs |-> NoKey]
  /\ follower = [p \in Procs |-> NoFollower]
  /\ recipients = [p \in Procs |-> {}]
  /\ result = [p \in Procs |-> NoResult]
  /\ pred = [p \in Procs |-> {}]
  /\ deliveries = <<>>
  /\ kvKey = exportJwk(1)
  /\ genCount = 1
  /\ keyWrites = 1
  /\ followers = [a \in Actors |-> NoFollower]
  /\ photos = [id \in PhotoIds |-> "public"]

NextFanout ==
  \E p \in Procs :
    \/ FollowListener(p)
    \/ GetActor(p)
    \/ KeyGet(p)
    \/ Deliver(p)
    \/ Store(p)
    \/ UndoListener(p)
    \/ GetObject(p)
    \/ Delete(p)
    \/ photoCreated(p)
    \/ photoUpdated(p)
    \/ photoDeleted(p)
    \/ GetPhoto(p)
    \/ List(p)

SpecFanout == InitFanout /\ [][NextFanout]_vars

\* ---- the whole program ------------------------------------------------------
Init ==
  /\ InitProcs
  /\ InitEmptyStore
  /\ photos \in [PhotoIds -> {"absent", "hidden", "public"}]

Next == NextKey \/ NextInbox \/ NextOutbox

Spec == Init /\ [][Next]_vars

\* ---- properties ---------------------------------------------------------------
\* The delivery batches a request has sent, and the deliveries in them.
BatchesOf(p) == {i \in DOMAIN deliveries : deliveries[i].proc = p}
SentBy(p) == UNION {deliveries[i].sent : i \in BatchesOf(p)}
SentTo(p, inbox) == {d \in SentBy(p) : d.inbox = inbox}

\* A Follow that passed validation and whose actor resolved.
AcceptedFollow(p) ==
  op[p] = "Follow" /\ FollowAddressed(arg[p]) /\ follower[p] # NoFollower

\* C1: when the Follow listener completes for a well-formed Follow addressed to
\* 'me' whose actor A resolved, A has a row in the follower directory and exactly
\* one Accept of that Follow was delivered, to A's inbox.
C1_FollowRecordsAndAccepts ==
  [][\A p \in Procs :
       (pc[p] # "done" /\ pc'[p] = "done" /\ AcceptedFollow(p)')
       => /\ followers'[arg'[p].actorId] # NoFollower
          /\ Cardinality(BatchesOf(p)') = 1
          /\ \A i \in BatchesOf(p)' :
               deliveries'[i].activity = [kind |-> "Accept", object |-> <<"Follow", arg'[p].id>>]
          /\ Cardinality(SentBy(p)') = 1
          /\ \A d \in SentBy(p)' :
               d.inbox = follower'[p].inboxId /\ arg'[p].actorId \in d.actorIds]_vars

C1_Witness ==
  \E p \in Procs :
    /\ AcceptedFollow(p) /\ pc[p] = "done"
    /\ followers[arg[p].actorId] # NoFollower
    /\ Cardinality(SentBy(p)) = 1

\* An Undo that passed validation.
AcceptedUndo(p) == op[p] = "Undo" /\ UndoAddressed(arg[p])

NamesMe(uri) == parseUri(uri).type = "actor" /\ parseUri(uri).identifier = activityPubHandle

\* C3: a Follow whose object is not the actor URI of 'me' is finished by the
\* step that receives it, which changes no follower row and delivers nothing.
C3_MisaddressedFollowIgnored ==
  [][\A p \in Procs :
       (pc[p] = "idle" /\ op'[p] = "Follow" /\ ~NamesMe(arg'[p].objectId))
       => /\ pc'[p] = "done"
          /\ followers' = followers
          /\ deliveries' = deliveries]_vars

\* A Follow of another actor of this server was received while a follower
\* was recorded.
C3_Witness ==
  \E p \in Procs :
    /\ op[p] = "Follow" /\ pc[p] = "done"
    /\ arg[p].id # NULL /\ arg[p].actorId # NULL
    /\ arg[p].objectId = ActorUri("other")
    /\ BatchesOf(p) = {}
    /\ \E a \in Actors : followers[a] # NoFollower

\* A request that runs the key-pairs dispatcher for the configured handle.
KeyCall(p) == op[p] \in {"actor", "keyPairs"} /\ arg[p].handle = activityPubHandle

\* C4: the key pair under ['key'] is written at most once.
C4_KeyWrittenAtMostOnce == keyWrites <= 1

\* No two requests of the run overlapped.
NoOverlap == \A p, q \in Procs : (p # q /\ op[p] # "none" /\ op[q] # "none")
                                    => (p \in pred[q] \/ q \in pred[p])

\* C5: when the calls of the key-pairs dispatcher do not overlap, all of them
\* return the key pair that is stored, the first one having generated and
\* stored it and every later one having read it without generating or writing.
C5_SequentialCallsSameKey ==
  NoOverlap =>
    /\ keyWrites <= 1 /\ genCount <= 1
    /\ \A p \in Procs : (KeyCall(p) /\ pc[p] = "done") =>
         /\ keys[p] # NoKey
         /\ kvKey = exportJwk(keys[p])
         /\ ((\E q \in pred[p] : KeyCall(q)) <=> entry[p] # NoEntry)
    /\ \A p, q \in Procs : (KeyCall(p) /\ KeyCall(q) /\ pc[p] = "done" /\ pc[q] = "done")
         => keys[p] = keys[q]

\* Two calls, one after the other, have returned.
C5_Witness ==
  \E p, q \in Procs :
    /\ NoOverlap
    /\ KeyCall(p) /\ KeyCall(q) /\ p \in pred[q]
    /\ pc[q] = "done" /\ keys[q] = keys[p] /\ keys[q] # NoKey

\* The inbox the publisher is to deliver to for a follower.
PreferredTarget(r) == IF r.sharedInbox # NoInbox THEN r.sharedInbox ELSE r.inboxId

\* C6: a photoCreated that has sent made exactly one delivery to the shared inbox
\* of two followers that have the same one, and in general one delivery to each
\* follower's shared inbox if it has one, else to its direct inbox, and no other.
C6_OneDeliveryPerSharedInbox ==
  \A p \in Procs : (op[p] = "photoCreated" /\ BatchesOf(p) # {}) =>
    /\ \A r1, r2 \in recipients[p] :
         (r1 # r2 /\ r1.sharedInbox # NoInbox /\ r1.sharedInbox = r2.sharedInbox)
         => Cardinality(SentTo(p, r1.sharedInbox)) = 1
    /\ \A r \in recipients[p] : Cardinality(SentTo(p, PreferredTarget(r))) = 1
    /\ Cardinality(SentBy(p)) = Cardinality({PreferredTarget(r) : r \in recipients[p]})

\* A created or updated photo the repository does not show.
HiddenEvent(p) ==
  /\ op[p] \in {"photoCreated", "photoUpdated"}
  /\ photos[arg[p].photoId] \in {"hidden", "absent"}

\* C7: photoCreated and photoUpdated of a hidden or missing photo deliver
\* nothing and do not fail.
C7_HiddenPhotoNotPublished ==
  \A p \in Procs : HiddenEvent(p) =>
    /\ BatchesOf(p) = {}
    /\ pc[p] \in {"getPhoto", "done"}

\* Such an event has returned while followers were recorded.
C7_Witness ==
  \E p, q \in Procs :
    /\ HiddenEvent(p) /\ op[p] = "photoCreated" /\ photos[arg[p].photoId] = "hidden"
    /\ HiddenEvent(q) /\ op[q] = "photoUpdated"
    /\ pc[p] = "done" /\ pc[q] = "done"
    /\ \E a \in Actors : followers[a] # NoFollower

\* C8: photoDeleted of a photo that is not public delivers nothing and does
\* not fail.
C8_HiddenPhotoNotDeleted ==
  \A p \in Procs : (op[p] = "photoDeleted" /\ photos[arg[p].photoId] # "public") =>
    /\ SentBy(p) = {}
    /\ pc[p] # "failed"

\* C9 as stated: from every directory state, adding a follower row and then
\* removing it leaves the number of rows as it was, as does removing an
\* absent row.
C9_AddRemoveKeepsCount ==
  \A u \in Actors :
    /\ \A r \in Profiles(u) :
         FollowerCount(kvDelete(kvSet(followers, u, r), u)) = FollowerCount(followers)
    /\ followers[u] = NoFollower
         => FollowerCount(kvDelete(followers, u)) = FollowerCount(followers)

\* C9 amended: adding a row for a URI that has none and then removing it leaves
\* the number of rows as it was; when the URI already had a row the add
\* overwrites it and the number ends one lower; removing an absent row changes
\* nothing.
C9_AddRemoveKeepsCountWhenAbsent ==
  \A u \in Actors : \A r \in Profiles(u) :
    LET after == kvDelete(kvSet(followers, u, r), u) IN
    /\ after[u] = NoFollower
    /\ followers[u] = NoFollower =>
         /\ FollowerCount(kvSet(followers, u, r)) = FollowerCount(followers) + 1
         /\ FollowerCount(after) = FollowerCount(followers)
         /\ kvDelete(followers, u) = followers
    /\ followers[u] # NoFollower =>
         /\ FollowerCount(kvSet(followers, u, r)) = FollowerCount(followers)
         /\ FollowerCount(after) = FollowerCount(followers) - 1

\* Starting from no rows, a follower was added by a Follow and then removed
\* by its Undo, and there are no rows again.
C9_Witness ==
  \E p, q \in Procs :
    /\ op[q] = "Follow" /\ pc[q] = "done" /\ follower[q] # NoFollower /\ pred[q] = {}
    /\ op[p] = "Undo" /\ pc[p] = "done" /\ pred[p] = {q}
    /\ UndoAddressed(arg[p]) /\ arg[p].actorId = arg[q].actorId
    /\ FollowerCount(followers) = 0

\* C10: a dispatcher asked for a handle other than 'me' returns at once, null
\* for the actor, the outbox and the followers and [] for the key pairs, and
\* neither generates nor stores a key pair.
C10_UnknownHandleNotFound ==
  [][\A p \in Procs :
       (pc[p] = "idle" /\ op'[p] \in {"actor", "keyPairs", "outbox", "followers"}
          /\ arg'[p].handle # activityPubHandle)
       => /\ pc'[p] = "done"
          /\ result'[p].status = (IF op'[p] = "keyPairs" THEN "empty" ELSE "null")
          /\ keys'[p] = NoKey
          /\ kvKey' = kvKey /\ genCount' = genCount /\ keyWrites' = keyWrites]_vars

\* The actor, outbox and followers of another handle were asked for (the
\* first two having returned not-found) and no key pair exists.
C10_Witness ==
  \E p, q \in Procs :
    /\ op[p] = "actor" /\ arg[p].handle = "other" /\ pc[p] = "done"
    /\ result[p].status = "null"
    /\ op[q] \in {"outbox", "followers"} /\ arg[q].handle = "other" /\ pc[q] = "done"
    /\ result[q].status = "null"
    /\ kvKey = NoEntry /\ genCount = 0

PhotoEvent(p) == op[p] \in {"photoCreated", "photoUpdated", "photoDeleted"}

\* C12: a content event that has sent has attempted the inbox of every follower it
\* listed, attempted each once only, and did not fail, whatever the outcome of
\* the single deliveries.
C12_DeliveryFailureIsolated ==
  \A p \in Procs : (PhotoEvent(p) /\ BatchesOf(p) # {}) =>
    /\ \A r \in recipients[p] : SentTo(p, r.inboxId) # {}
    /\ Cardinality(BatchesOf(p)) = 1
    /\ \A r \in recipients[p] : Cardinality(SentTo(p, r.inboxId)) = 1
    /\ pc[p] # "failed"

\* C13: when getActor returns null for a well-formed Follow of 'me', the
\* listener returns at that step without failing; no follower row is written,
\* nothing is delivered and the key pairs are not asked for.
C13_UnresolvedFollowDropped ==
  [][\A p \in Procs :
       (op[p] = "Follow" /\ pc[p] = "getActor" /\ pc'[p] # "getActor"
          /\ follower'[p] = NoFollower)
       => /\ pc'[p] = "done"
          /\ followers' = followers
          /\ deliveries' = deliveries
          /\ BatchesOf(p)' = {}
          /\ keys'[p] = NoKey /\ kvKey' = kvKey]_vars

\* A well-formed Follow of 'me' whose actor did not resolve has been dropped.
C13_Witness ==
  \E p \in Procs :
    /\ op[p] = "Follow" /\ pc[p] = "done" /\ follower[p] = NoFollower
    /\ \E a \in Actors : arg[p] = ValidFollow(a) /\ followers[a] = NoFollower
    /\ deliveries = <<>>

\* C14: the follower row is written before the Accept is sent, so whenever a
\* Follow has sent its Accept and no Undo has been received, the row of its
\* actor exists.
C14_RecordBeforeAccept ==
  \A p \in Procs :
    (AcceptedFollow(p) /\ BatchesOf(p) # {} /\ \A q \in Procs : op[q] # "Undo")
    => followers[arg[p].actorId] # NoFollower

\* C15: the steps of an Undo listener change no follower row other than the
\* one keyed by the actor of the Undo itself.
C15_UndoRemovesOnlyItsActor ==
  [][\A p \in Procs :
       (op[p] = "Undo" /\ pc[p] # pc'[p])
       => \A a \in Actors \ {arg[p].actorId} : followers'[a] = followers[a]]_vars

\* Actor B's Undo of a Follow made by A has completed and A is still recorded.
C15_Witness ==
  \E p, q \in Procs :
    /\ AcceptedFollow(q) /\ pc[q] = "done" /\ q \in pred[p]
    /\ AcceptedUndo(p) /\ pc[p] = "done"
    /\ arg[p].innerActorId = arg[q].actorId
    /\ arg[p].actorId # arg[q].actorId
    /\ followers[arg[q].actorId] # NoFollower

\* An inbound activity the listeners are to ignore: a Follow without id, actor
\* or object, an Undo without actor or of something that is no Follow of 'me',
\* or an activity of another kind.
Malformed(o, a) ==
  \/ o = "Follow" /\ (a.id = NULL \/ a.actorId = NULL \/ a.objectId = NullUri)
  \/ o = "Undo" /\ (a.actorId = NULL \/ a.inner # "Follow" \/ ~NamesMe(a.objectId))
  \/ o = "Other"

\* C16: no step of a listener handling a malformed activity changes a follower
\* row, delivers anything or fails; the Follow and the other kinds are finished
\* by the step that receives them and the Undo by the step after getObject.
C16_MalformedActivityIgnored ==
  [][\A p \in Procs :
       (pc[p] # pc'[p] /\ Malformed(op'[p], arg'[p]))
       => /\ followers' = followers
          /\ deliveries' = deliveries
          /\ kvKey' = kvKey
          /\ pc'[p] = (IF op'[p] = "Undo" /\ pc[p] = "idle" THEN "getObject" ELSE "done")]_vars

\* After a Follow was recorded, an Undo in the follower's name that is
\* malformed has been handled, and the follower is still recorded.
C16_Witness ==
  \E p, q \in Procs :
    /\ AcceptedFollow(p) /\ pc[p] = "done" /\ p \in pred[q]
    /\ op[q] = "Undo" /\ Malformed(op[q], arg[q]) /\ pc[q] = "done"
    /\ arg[q].innerActorId = arg[p].actorId
    /\ followers[arg[p].actorId] = follower[p]

C18_CreatePrecedesLaterEvents ==
  \A p, q \in Procs :
    (/\ op[p] = "photoCreated" /\ op[q] \in {"photoUpdated", "photoDeleted"}
     /\ arg[p].photoId = arg[q].photoId /\ p \in pred[q])
    => \A i \in BatchesOf(p), j \in BatchesOf(q) :
         \A d \in deliveries[i].sent, e \in deliveries[j].sent :
           d.inbox = e.inbox => i < j

\* A Create and a later Update or Delete of the same photo have both been
\* delivered to the same inbox.
C18_Witness ==
  \E p, q \in Procs :
    /\ op[p] = "photoCreated" /\ op[q] \in {"photoUpdated", "photoDeleted"}
    /\ arg[p].photoId = arg[q].photoId /\ p \in pred[q]
    /\ \E d \in SentBy(p), e \in SentBy(q) : d.inbox = e.inbox

\* C19: every photoCreated, photoUpdated and photoDeleted call eventually
\* returns or rejects, and once it has, every follower it listed has had a
\* delivery attempted at one of its inboxes, each inbox once, whether the
\* deliveries succeeded or not.
C19_EventCompletesAfterAllAttempts ==
  /\ \A p \in Procs : PhotoEvent(p) ~> Finished(p)
  /\ [](\A p \in Procs : (PhotoEvent(p) /\ Finished(p)) =>
          /\ \A r \in recipients[p] : \E d \in SentBy(p) : r.id \in d.actorIds
          /\ \A d \in SentBy(p) : Cardinality(SentTo(p, d.inbox)) = 1)

\* A content event has completed with one delivery that succeeded and one
\* that failed.
C19_Witness ==
  \E p \in Procs :
    /\ PhotoEvent(p) /\ Finished(p)
    /\ Cardinality(recipients[p]) = 2
    /\ \E d, e \in SentBy(p) : d.ok /\ ~e.ok

\* C20: photoDeleted never looks the photo up; what it sends is a Delete whose
\* object is the URI of the note and not the note, and once it has completed
\* it has sent it, whether or not the photo is still there.
C20_DeleteFromIdentifierAlone ==
  \A p \in Procs : op[p] = "photoDeleted" =>
    /\ pc[p] # "getPhoto"
    /\ \A i \in BatchesOf(p) :
         /\ deliveries[i].activity.kind = "Delete"
         /\ deliveries[i].activity.object = NoteUri(arg[p].photoId)
         /\ deliveries[i].activity.object # createNote(arg[p].photoId)
    /\ Finished(p) => Cardinality(BatchesOf(p)) = 1

\* The Delete of a photo that is no longer in the repository has been
\* delivered to a follower.
C20_Witness ==
  \E p \in Procs :
    /\ op[p] = "photoDeleted" /\ Finished(p)
    /\ getPhoto(arg[p].photoId) = "absent"
    /\ \E d \in SentBy(p) : d.ok

\* C21: whichever way the calls of the key-pairs dispatcher overlap, every
\* call that has obtained a key pair holds the one stored under ['key'], so
\* no two calls hold different key pairs.
C21_EveryCallReturnsStoredKey ==
  /\ \A p \in Procs : keys[p] # NoKey => kvKey = exportJwk(keys[p])
  /\ \A p, q \in Procs : (keys[p] # NoKey /\ keys[q] # NoKey) => keys[p] = keys[q]

\* C22: when a valid Undo of actor A was received after A's valid Follow, at
\* whatever await the Follow listener then stood, and no other Follow of A
\* was received, A has no follower row once both listeners have completed.
C22_UndoAfterFollowUnsubscribes ==
  \A p, q \in Procs :
    (/\ p < q /\ AcceptedFollow(p) /\ AcceptedUndo(q)
     /\ arg[p].actorId = arg[q].actorId
     /\ Finished(p) /\ Finished(q)
     /\ \A r \in Procs \ {p} : ~(op[r] = "Follow" /\ arg[r].actorId = arg[p].actorId))
    => followers[arg[p].actorId] = NoFollower

\* C23: every delivery of a content event goes to the direct or the shared
\* inbox of a follower the event listed; an actor whose Undo had completed
\* before the event was invoked, and of whom no Follow was received after that
\* Undo, gets no delivery of the event at its own inbox; and an actor of whom
\* no Follow was ever received gets none.
C23_OnlyListedFollowersReceive ==
  \A p \in Procs : PhotoEvent(p) =>
    /\ \A d \in SentBy(p) : \E r \in recipients[p] : d.inbox \in {r.inboxId, r.sharedInbox}
    /\ \A q \in pred[p] :
         (/\ AcceptedUndo(q) /\ pc[q] = "done"
          /\ \A r \in Procs : (op[r] = "Follow" /\ arg[r].actorId = arg[q].actorId) => r < q)
         => SentTo(p, InboxOf(arg[q].actorId)) = {}
    /\ \A a \in Actors :
         (\A r \in Procs : ~(op[r] = "Follow" /\ arg[r].actorId = a))
         => SentTo(p, InboxOf(a)) = {}

====
